---- MODULE Spec2Model ----
(***************************************************************************)
(* Model of the analytics utilities of brent-oil-analysis (src/src/utils.py). *)
(* Every utility is a function of its arguments; a state of the model is    *)
(* one finished call: the function called (op), the arguments it was given  *)
(* (args) and its outcome (result), which is either a returned value or a   *)
(* raised exception.                                                        *)
(*                                                                          *)
(* Python values are records: a container carries its kind (the Python     *)
(* type) next to its elements, a pandas Series carries its index labels.   *)
(* Natural logarithms are fixed-point integers (millionths); the floats of  *)
(* a standard deviation are binary floats of a few mantissa bits, rounded  *)
(* to nearest after every operation as float64 is.                         *)
(*                                                                          *)
(* A DataFrame is a mutable object: it lives in the heap and is passed by  *)
(* reference, so that a function's writes to its argument are visible to   *)
(* the caller. What a function prints is appended to stdout.                *)
(*                                                                          *)
(* A second specification runs several calls at once on inputs they share: *)
(* each thread executes its function statement by statement, and the       *)
(* statements of different threads interleave in every order.              *)
(*                                                                          *)
(* The dashboard script (src/app.py) is modelled by its loader, load_data, *)
(* over the states of the three files it reads, and by one run of the      *)
(* script over the parts of the page it computes in order; the earlier     *)
(* date_to_index of utils-checkpoint.py is a call of its own.              *)
(***************************************************************************)
EXTENDS Integers, Sequences, FiniteSets, TLC

VARIABLES op, args, result, heap, stdout, threads

vars == <<op, args, result, heap, stdout, threads>>

(* ------------------------------ bounds --------------------------------- *)

\* longest price / return / date sequence passed to a function
MaxLen == 3

\* largest rolling window tried (larger than MaxLen, so that a window can
\* exceed the length of the returns)
MaxWindow == 4

\* most rows of an event table
MaxEvents == 3

\* most rows of a table, and most elements of an array, that concurrent
\* calls share
MaxSharedRows == 2

(* --------------------------- Python outcomes --------------------------- *)

Return(v) == [kind |-> "return", value |-> v]

Raise(exc) == [kind |-> "raise", exc |-> exc]

NoCall == [kind |-> "none"]

\* all sequences over S of length 0..n
SeqsUpTo(S, n) == UNION {[1..k -> S] : k \in 0..n}

\* Python a[start:stop] for 0 <= start, 0 <= stop (0-based, stop exclusive)
PySlice(a, start, stop) ==
    LET hi == IF stop > Len(a) THEN Len(a) ELSE stop
    IN  IF start >= hi THEN <<>> ELSE SubSeq(a, start + 1, hi)

(* ------------------------ calculate_log_returns ------------------------ *)

\* natural logarithm of 1..8 in millionths, as numpy.log computes it
LnMicro == <<0, 693147, 1098612, 1386294, 1609438, 1791759, 1945910, 2079442>>

\* np.log(prices): elementwise natural logarithm
np_log(a) == [i \in 1..Len(a) |-> LnMicro[a[i]]]

\* np.any(prices <= 0)
any_non_positive(a) == \E i \in 1..Len(a) : a[i] <= 0

\* hasattr(prices, '__len__'): a float has no length, str and containers do
hasattr_len(prices) == prices.kind \in {"str", "list", "tuple", "ndarray", "Series"}

\* the isinstance chain that converts prices to a numpy array
IsConvertible(prices) == prices.kind \in {"Series", "list", "ndarray"}

\* a length check that is off by one
TooShort_off_by_one(a) == Len(a) < 1

\* len(prices) < 2
TooShort(a) == Len(a) < 2

\* log_prices[1:] - log_prices[:-1]
DiffLogs(log_prices) ==
    LET hd == PySlice(log_prices, 1, Len(log_prices))
        tl == PySlice(log_prices, 0, Len(log_prices) - 1)
    IN  [i \in 1..Len(hd) |-> hd[i] - tl[i]]

calculate_log_returns(prices) ==
    IF prices.kind = "None" THEN Raise("ValueError")
    ELSE IF ~hasattr_len(prices) THEN Raise("TypeError")
    ELSE IF Len(prices.vals) = 0 THEN Raise("ValueError")
    ELSE IF ~IsConvertible(prices) THEN Raise("TypeError")
    ELSE IF TooShort(prices.vals) THEN Raise("ValueError")
    ELSE IF any_non_positive(prices.vals) THEN Raise("ValueError")
    ELSE Return(DiffLogs(np_log(prices.vals)))

\* the price values the calls are tried on
PriceVals == {-1, 0, 1, 2, 3}

\* the arguments calculate_log_returns is called with (a str holds the code
\* points of its characters)
PriceInputs ==
    {[kind |-> "None", vals |-> <<>>], [kind |-> "float", vals |-> <<>>]}
    \cup {[kind |-> "str", vals |-> s] : s \in SeqsUpTo({120}, MaxLen)}
    \cup {[kind |-> k, vals |-> s] :
            k \in {"list", "tuple", "ndarray", "Series"},
            s \in SeqsUpTo(PriceVals, MaxLen)}

LogReturnsCall ==
    /\ op = "none"
    /\ \E prices \in PriceInputs :
        /\ op' = "calculate_log_returns"
        /\ args' = [prices |-> prices]
        /\ result' = calculate_log_returns(prices)
        /\ UNCHANGED <<heap, stdout, threads>>

(* ---------------------------- date_to_index ---------------------------- *)

\* how far the index labels of a Series may run past its length (a Series cut
\* out of a longer table keeps the labels of the rows it was cut from)
LabelShift == 1

\* Dates are whole hours counted from 2020-01-01 00:00. A naive datetime is its
\* wall-clock hour; an aware datetime is a wall-clock hour and a tzinfo, and
\* the instant it denotes is the wall-clock hour less the zone's UTC offset.
DateVals == 0..2

Zones == {"UTC", "+01:00"}

UtcOffset(tz) == IF tz = "+01:00" THEN 1 ELSE 0

\* the texts an object-dtype Series holds, and the hour each one parses to
IsoHour == [t \in {"2020-01-01 00:00", "2020-01-01 01:00", "2020-01-01 02:00"} |->
              CASE t = "2020-01-01 00:00" -> 0
                [] t = "2020-01-01 01:00" -> 1
                [] t = "2020-01-01 02:00" -> 2]

Junk == "not a date"

\* index labels of a Series of n rows: strictly increasing, 0..n-1 by default
IndexLabels(n) ==
    {ix \in [1..n -> 0..(MaxLen + LabelShift - 1)] :
        \A i, j \in 1..n : i < j => ix[i] < ix[j]}

\* a datetime64 Series holds wall-clock hours when naive (tz = "None") and
\* UTC instants when timezone-aware
DatetimeSeriesInputs ==
    UNION {{[dtype |-> "datetime64", tz |-> z, vals |-> v, index |-> ix] :
                z \in Zones \cup {"None"}, v \in [1..n -> DateVals], ix \in IndexLabels(n)} :
           n \in 0..MaxLen}

\* an object Series holds texts
ObjectSeriesInputs ==
    UNION {{[dtype |-> "object", tz |-> "None", vals |-> v, index |-> ix] :
                v \in [1..n -> DOMAIN IsoHour \cup {Junk}], ix \in IndexLabels(n)} :
           n \in 0..MaxLen}

TargetInputs ==
    {[kind |-> "None"], [kind |-> "str", text |-> "2020-01-01 01:00"]}
    \cup {[kind |-> "datetime", wall |-> w, tzinfo |-> z] :
            w \in DateVals, z \in Zones \cup {"None"}}

\* pd.api.types.is_datetime64_any_dtype(date_series)
is_datetime64_any_dtype(s) == s.dtype = "datetime64"

\* pd.to_datetime(date_series): parses every text, raises on one it cannot parse
pd_to_datetime(s) ==
    IF \E i \in 1..Len(s.vals) : s.vals[i] \notin DOMAIN IsoHour
    THEN Raise("ValueError")
    ELSE Return([dtype |-> "datetime64", tz |-> "None",
                 vals |-> [i \in 1..Len(s.vals) |-> IsoHour[s.vals[i]]],
                 index |-> s.index])

\* target_date.replace(tzinfo=...): the wall-clock fields are kept
replace_tzinfo(t, z) == [kind |-> "datetime", wall |-> t.wall, tzinfo |-> z]

\* the timezone branch: reading target_date.tzinfo fails on a non-datetime
normalise_target(s, t) ==
    IF t.kind # "datetime" THEN Raise("AttributeError")
    ELSE IF s.tz # "None"
         THEN IF t.tzinfo = "None" THEN Return(replace_tzinfo(t, "UTC")) ELSE Return(t)
         ELSE IF t.tzinfo # "None" THEN Return(replace_tzinfo(t, "None")) ELSE Return(t)

\* date_series == target_date, elementwise: instants when aware, wall clock when naive
series_eq(s, t) ==
    [i \in 1..Len(s.vals) |->
        IF s.tz # "None" THEN s.vals[i] = t.wall - UtcOffset(t.tzinfo)
        ELSE s.vals[i] = t.wall]

\* a lookup that does not ask whether anything matched
mask_any_unchecked(mask) == TRUE

\* mask.any()
mask_any(mask) == \E i \in 1..Len(mask) : mask[i]

\* the last maximum in place of the first
LastMax(mask) ==
    IF \E i \in 1..Len(mask) : mask[i]
    THEN CHOOSE i \in 1..Len(mask) : mask[i] /\ \A j \in (i + 1)..Len(mask) : ~mask[j]
    ELSE Len(mask)

\* position (1-based here) of the first maximum of a boolean mask
FirstMax(mask) ==
    IF \E i \in 1..Len(mask) : mask[i]
    THEN CHOOSE i \in 1..Len(mask) : mask[i] /\ \A j \in 1..(i - 1) : ~mask[j]
    ELSE 1

\* mask.idxmax(): the index LABEL of the first maximum
idxmax(mask, index) == index[FirstMax(mask)]

\* the statements inside the try block
date_to_index_try(date_series, target_date) ==
    LET conv == IF ~is_datetime64_any_dtype(date_series)
                THEN pd_to_datetime(date_series)
                ELSE Return(date_series)
    IN  IF conv.kind = "raise" THEN conv
        ELSE IF Len(conv.value.vals) = 0 THEN Return(-1)
        ELSE LET nt == normalise_target(conv.value, target_date)
             IN  IF nt.kind = "raise" THEN nt
                 ELSE LET mask == series_eq(conv.value, nt.value)
                      IN  IF mask_any(mask)
                          THEN Return(idxmax(mask, conv.value.index))
                          ELSE Return(-1)

\* a handler that lets the exception through
except_nothing(outcome) == outcome

\* except Exception: return -1
except_Exception(outcome) == IF outcome.kind = "raise" THEN Return(-1) ELSE outcome

date_to_index(date_series, target_date) ==
    except_Exception(date_to_index_try(date_series, target_date))

\* a call on a datetime64 Series
DateToIndexCall ==
    /\ op = "none"
    /\ \E date_series \in DatetimeSeriesInputs, target_date \in TargetInputs :
        /\ op' = "date_to_index"
        /\ args' = [date_series |-> date_series, target_date |-> target_date]
        /\ result' = date_to_index(date_series, target_date)
        /\ UNCHANGED <<heap, stdout, threads>>

\* a call on a Series of texts, which the function converts first
DateToIndexTextCall ==
    /\ op = "none"
    /\ \E date_series \in ObjectSeriesInputs, target_date \in TargetInputs :
        /\ op' = "date_to_index"
        /\ args' = [date_series |-> date_series, target_date |-> target_date]
        /\ result' = date_to_index(date_series, target_date)
        /\ UNCHANGED <<heap, stdout, threads>>

(* ------------------ date_to_index of utils-checkpoint.py --------------- *)

\* date_series == target_date, elementwise, with no normalisation: a naive and
\* an aware datetime are never equal
checkpoint_eq(s, t) ==
    IF (s.tz = "None") # (t.tzinfo = "None")
    THEN [i \in 1..Len(s.vals) |-> FALSE]
    ELSE series_eq(s, t)

\* (date_series == target_date).idxmax(): raises on an empty Series
checkpoint_try(date_series, target_date) ==
    LET mask == checkpoint_eq(date_series, target_date)
    IN  IF Len(mask) = 0 THEN Raise("ValueError")
        ELSE Return(idxmax(mask, date_series.index))

\* try: return ... except: return -1
date_to_index_checkpoint(date_series, target_date) ==
    except_Exception(checkpoint_try(date_series, target_date))

DateToIndexCheckpointCall ==
    /\ op = "none"
    /\ \E date_series \in DatetimeSeriesInputs,
          target_date \in {t \in TargetInputs : t.kind = "datetime"} :
        /\ op' = "date_to_index_checkpoint"
        /\ args' = [date_series |-> date_series, target_date |-> target_date]
        /\ result' = date_to_index_checkpoint(date_series, target_date)
        /\ UNCHANGED <<heap, stdout, threads>>

(* --------------------- calculate_rolling_volatility -------------------- *)

\* Floating-point numbers are binary floats with a mantissa of MantissaBits
\* bits (float64 has 53) and round-to-nearest, ties-to-even, after every
\* operation. A float is [m, e], standing for m * 2^e, with m = 0 or
\* 2^(MantissaBits-1) <= |m| < 2^MantissaBits.
MantissaBits == 3

Pow2(k) == 2 ^ k

FZero == [m |-> 0, e |-> 0]

Abs(x) == IF x < 0 THEN -x ELSE x

\* scale num/den by powers of two until the quotient has MantissaBits bits
RECURSIVE FNorm(_, _, _)
FNorm(num, den, e) ==
    IF num >= Pow2(MantissaBits) * den THEN FNorm(num, 2 * den, e + 1)
    ELSE IF num < Pow2(MantissaBits - 1) * den THEN FNorm(2 * num, den, e - 1)
    ELSE <<num, den, e>>

\* the float nearest to the rational num/den (den > 0)
FRound(num, den) ==
    IF num = 0 THEN FZero
    ELSE LET t  == FNorm(Abs(num), den, 0)
             q  == t[1] \div t[2]
             r  == t[1] % t[2]
             up == 2 * r > t[2] \/ (2 * r = t[2] /\ q % 2 = 1)
             m  == IF up THEN q + 1 ELSE q
             sg == IF num < 0 THEN -1 ELSE 1
         IN  IF m = Pow2(MantissaBits)
             THEN [m |-> sg * Pow2(MantissaBits - 1), e |-> t[3] + 1]
             ELSE [m |-> sg * m, e |-> t[3]]

\* the float nearest to mant * 2^ex / div
FRoundScaled(mant, ex, div) ==
    IF ex >= 0 THEN FRound(mant * Pow2(ex), div) ELSE FRound(mant, div * Pow2(-ex))

Min(a, b) == IF a <= b THEN a ELSE b

FAdd(a, b) ==
    LET le == Min(a.e, b.e)
    IN  FRoundScaled(a.m * Pow2(a.e - le) + b.m * Pow2(b.e - le), le, 1)

FSub(a, b) == FAdd(a, [m |-> -b.m, e |-> b.e])

FMul(a, b) == FRoundScaled(a.m * b.m, a.e + b.e, 1)

\* true division by a count
FDivInt(a, n) == FRoundScaled(a.m, a.e, n)

\* np.sqrt of a float >= 0: a.m * 2^a.e = big * 2^(2h) with big of 2*MantissaBits-1
\* or 2*MantissaBits bits, whose square root is rounded to MantissaBits bits
FSqrt(a) ==
    IF a.m = 0 THEN FZero
    ELSE LET k   == IF (a.e - (MantissaBits - 1)) % 2 = 0
                    THEN MantissaBits - 1 ELSE MantissaBits
             big == a.m * Pow2(k)
             h   == (a.e - k) \div 2
             r   == CHOOSE c \in Pow2(MantissaBits - 1)..Pow2(MantissaBits) :
                        /\ (2 * c - 1) * (2 * c - 1) < 4 * big
                        /\ 4 * big < (2 * c + 1) * (2 * c + 1)
         IN  IF r = Pow2(MantissaBits)
             THEN [m |-> Pow2(MantissaBits - 1), e |-> h + 1]
             ELSE [m |-> r, e |-> h]

\* A float64 array holds multiples of 1/2 (vals[i] stands for vals[i]/2), an
\* int64 array holds the integers themselves.
Unit(dtype) == IF dtype = "float64" THEN 2 ELSE 1

\* the elements as floats (np.std computes an int64 array in float64)
AsFloats(xs, unit) == [i \in 1..Len(xs) |-> FRound(xs[i], unit)]

\* np.add.reduce of floats: the first element plus the running sum of the rest
RECURSIVE FSumFrom(_, _)
FSumFrom(acc, fs) == IF fs = <<>> THEN acc ELSE FSumFrom(FAdd(acc, Head(fs)), Tail(fs))

FSum(fs) == IF Len(fs) = 1 THEN fs[1] ELSE FAdd(fs[1], FSumFrom(FZero, Tail(fs)))

\* a deviation that is not taken from the mean: sqrt(sum(xs * xs) / m)
np_root_mean_square(xs, unit) ==
    LET fs == AsFloats(xs, unit)
        m  == Len(fs)
        xx == [i \in 1..m |-> FMul(fs[i], fs[i])]
    IN  FSqrt(FDivInt(FSum(xx), m))

\* np.std(xs), ddof = 0, over m = len(xs) >= 1 elements:
\*   arrmean = sum(xs) / m;  x = xs - arrmean;  sqrt(sum(x * x) / m)
np_std(xs, unit) ==
    LET fs      == AsFloats(xs, unit)
        m       == Len(fs)
        arrmean == FDivInt(FSum(fs), m)
        x       == [i \in 1..m |-> FSub(fs[i], arrmean)]
        xx      == [i \in 1..m |-> FMul(x[i], x[i])]
    IN  FSqrt(FDivInt(FSum(xx), m))

\* rolling_std[i] = value: the value is cast to the array's dtype, so a float
\* stored into an int64 array loses its fractional part
setitem(dtype, value) ==
    IF dtype = "int64"
    THEN IF value.e >= 0 THEN value.m * Pow2(value.e) ELSE value.m \div Pow2(-value.e)
    ELSE value

\* the window of observations the loop body takes at index i (0-based)
window_slice(vals, i, window) ==
    IF i < window
    THEN PySlice(vals, 0, i + 1)
    ELSE PySlice(vals, i - window + 1, i + 1)

\* a rolling window that reports complete windows only
rolling_volatility_complete_windows(returns, window) ==
    [dtype |-> returns.dtype,
     vals  |-> [p \in 1..(IF Len(returns.vals) >= window
                           THEN Len(returns.vals) - window + 1 ELSE 0) |->
                  setitem(returns.dtype,
                          np_std(PySlice(returns.vals, p - 1, p - 1 + window),
                                 Unit(returns.dtype)))]]

\* np.zeros_like(returns) keeps the dtype of returns; the loop fills it
calculate_rolling_volatility(returns, window) ==
    [dtype |-> returns.dtype,
     vals  |-> [p \in 1..Len(returns.vals) |->
                  setitem(returns.dtype,
                          np_std(window_slice(returns.vals, p - 1, window),
                                 Unit(returns.dtype)))]]

ReturnVals == {-1, 0, 1, 2, 3}

\* np.array(returns): int64 for a sequence of ints, float64 for floats
ReturnsInputs ==
    {[dtype |-> d, vals |-> v] :
        d \in {"int64", "float64"}, v \in SeqsUpTo(ReturnVals, MaxLen)}

RollingVolatilityCall ==
    /\ op = "none"
    /\ \E returns \in ReturnsInputs, window \in 1..MaxWindow :
        /\ op' = "calculate_rolling_volatility"
        /\ args' = [returns |-> returns, window |-> window]
        /\ result' = Return(calculate_rolling_volatility(returns, window))
        /\ UNCHANGED <<heap, stdout, threads>>

(* --------------------------- find_nearest_event ------------------------ *)

\* Event dates are whole hours counted from 2020-01-01 00:00; a Timedelta's
\* .days is the number of whole days below it (23 hours: 0, -1 hour: -1).
HoursPerDay == 24

EventDateVals == {0, 12, 24, 60}

TargetDateVals == {18, 24, 36}

\* the texts an object-dtype Date column holds, and the hour each parses to
EventIsoHour == [t \in {"2020-01-01 12:00", "2020-01-03 12:00"} |->
                   CASE t = "2020-01-01 12:00" -> 12
                     [] t = "2020-01-03 12:00" -> 60]

\* the Event column names its row: the i-th event of a table is event i
EventNames(n) == [i \in 1..n |-> i]

\* index labels of an event table: any labels, repeated ones included (a
\* table concatenated from several sources keeps each source's labels)
EventIndexLabels(n) == [1..n -> 0..(MaxEvents - 1)]

\* a DataFrame with the columns Event and Date
DataFrame(index, dates, dtype) ==
    [columns |-> <<"Event", "Date">>, index |-> index,
     Event |-> EventNames(Len(index)), Date |-> dates,
     date_dtype |-> dtype, days_diff |-> <<>>]

EventTables ==
    UNION {{DataFrame(ix, d, "datetime64") :
                ix \in EventIndexLabels(n), d \in [1..n -> EventDateVals]} :
           n \in 0..MaxEvents}

EventTextTables ==
    UNION {{DataFrame(ix, d, "object") :
                ix \in EventIndexLabels(n), d \in [1..n -> DOMAIN EventIsoHour \cup {Junk}]} :
           n \in 0..MaxEvents}

\* date_column as the caller names it: the column the tables have, and one
\* they do not have
DateColumnNames == {"Date", "When"}

\* the reference that is None
NoneRef == 0

HasColumn(df, name) == \E i \in 1..Len(df.columns) : df.columns[i] = name

\* a "copy" that hands back the caller's own object
copy_alias(h, ref) == [heap |-> h, ref |-> ref]

\* events_df.copy(): a new object holding the same table
copy(h, ref) == [heap |-> Append(h, h[ref]), ref |-> Len(h) + 1]

\* events_df[date_column] = pd.to_datetime(events_df[date_column])
set_date_column(h, ref, date_column) ==
    LET df == h[ref]
    IN  IF ~HasColumn(df, date_column)
        THEN [heap |-> h, outcome |-> Raise("KeyError")]
        ELSE IF df.date_dtype = "datetime64"
        THEN [heap |-> h, outcome |-> Return(ref)]
        ELSE IF \E i \in 1..Len(df.Date) : df.Date[i] \notin DOMAIN EventIsoHour
        THEN [heap |-> h, outcome |-> Raise("ValueError")]
        ELSE [heap |-> [h EXCEPT ![ref] =
                          [df EXCEPT !.Date = [i \in 1..Len(df.Date) |-> EventIsoHour[df.Date[i]]],
                                     !.date_dtype = "datetime64"]],
              outcome |-> Return(ref)]

\* Timedelta.days
dt_days(delta) == delta \div HoursPerDay

\* events_df['days_diff'] = abs((events_df[date_column] - target_date).dt.days)
set_days_diff(h, ref, target_date) ==
    LET df == h[ref]
    IN  [h EXCEPT ![ref] =
           [df EXCEPT !.days_diff = [i \in 1..Len(df.Date) |-> Abs(dt_days(df.Date[i] - target_date))],
                      !.columns = IF HasColumn(df, "days_diff") THEN df.columns
                                  ELSE Append(df.columns, "days_diff")]]

\* position (1-based here) of the first minimum
FirstMin(xs) ==
    CHOOSE i \in 1..Len(xs) :
        /\ \A j \in 1..Len(xs) : xs[i] <= xs[j]
        /\ \A j \in 1..(i - 1) : xs[j] # xs[i]

\* events_df['days_diff'].idxmin(): the index LABEL of the first minimum
idxmin(df) == df.index[FirstMin(df.days_diff)]

RowAt(df, i) ==
    [label |-> df.index[i], Event |-> df.Event[i], Date |-> df.Date[i],
     days_diff |-> df.days_diff[i]]

RECURSIVE RowsLabelled(_, _, _)
RowsLabelled(df, label, i) ==
    IF i > Len(df.index) THEN <<>>
    ELSE IF df.index[i] = label
         THEN <<RowAt(df, i)>> \o RowsLabelled(df, label, i + 1)
         ELSE RowsLabelled(df, label, i + 1)

\* events_df.loc[idx]: the row labelled idx as a Series, or, when several
\* rows carry the label, all of them as a DataFrame
loc(df, idx) ==
    LET rows == RowsLabelled(df, idx, 1)
    IN  [kind |-> IF Len(rows) = 1 THEN "Series" ELSE "DataFrame", rows |-> rows]

\* the function from the copy on, given what the copy returned
find_nearest_event_on(c, target_date, date_column) ==
    LET conv == set_date_column(c.heap, c.ref, date_column)
    IN  IF conv.outcome.kind = "raise" THEN conv
        ELSE LET h2 == set_days_diff(conv.heap, c.ref, target_date)
             IN  [heap |-> h2, outcome |-> Return(loc(h2[c.ref], idxmin(h2[c.ref])))]

\* the function without its private copy
find_nearest_event_in_place(h, events_df, target_date, date_column) ==
    IF events_df = NoneRef \/ Len(h[events_df].index) = 0
    THEN [heap |-> h, outcome |-> Raise("ValueError")]
    ELSE find_nearest_event_on(copy_alias(h, events_df), target_date, date_column)

\* the function with a check that looks at None only
find_nearest_event_unchecked(h, events_df, target_date, date_column) ==
    IF events_df = NoneRef
    THEN [heap |-> h, outcome |-> Raise("ValueError")]
    ELSE IF Len(h[events_df].index) = 0
    THEN [heap |-> h, outcome |-> Return([kind |-> "Series", rows |-> <<>>])]
    ELSE find_nearest_event_on(copy(h, events_df), target_date, date_column)

\* find_nearest_event(events_df, target_date, date_column): the heap it
\* leaves and its outcome
find_nearest_event(h, events_df, target_date, date_column) ==
    IF events_df = NoneRef \/ Len(h[events_df].index) = 0
    THEN [heap |-> h, outcome |-> Raise("ValueError")]
    ELSE find_nearest_event_on(copy(h, events_df), target_date, date_column)

\* a call with None in place of the table
FindNearestEventNoneCall ==
    /\ op = "none"
    /\ \E target_date \in TargetDateVals, date_column \in DateColumnNames :
        LET r == find_nearest_event(heap, NoneRef, target_date, date_column)
        IN  /\ op' = "find_nearest_event"
            /\ args' = [events_df |-> NoneRef, target_date |-> target_date,
                        date_column |-> date_column]
            /\ result' = r.outcome
            /\ heap' = r.heap
            /\ UNCHANGED <<stdout, threads>>

\* a call on a table the caller holds; args.table is the table as it was
\* when the call was made
FindNearestEventCall ==
    /\ op = "none"
    /\ \E table \in EventTables, target_date \in TargetDateVals,
          date_column \in DateColumnNames :
        LET made == Append(heap, table)
            r    == find_nearest_event(made, Len(made), target_date, date_column)
        IN  /\ op' = "find_nearest_event"
            /\ args' = [events_df |-> Len(made), target_date |-> target_date,
                        date_column |-> date_column, table |-> table]
            /\ result' = r.outcome
            /\ heap' = r.heap
            /\ UNCHANGED <<stdout, threads>>

\* a call on a table whose dates are texts, which the function converts
FindNearestEventTextCall ==
    /\ op = "none"
    /\ \E table \in EventTextTables, target_date \in TargetDateVals,
          date_column \in DateColumnNames :
        LET made == Append(heap, table)
            r    == find_nearest_event(made, Len(made), target_date, date_column)
        IN  /\ op' = "find_nearest_event"
            /\ args' = [events_df |-> Len(made), target_date |-> target_date,
                        date_column |-> date_column, table |-> table]
            /\ result' = r.outcome
            /\ heap' = r.heap
            /\ UNCHANGED <<stdout, threads>>

(* --------------------------- validate_dataframe ------------------------ *)

ColumnNames == {"Date", "Price"}

\* longest column list and longest required_columns list
MaxColumns == 2

\* tables to validate: every list of columns, a repeated name included
ValidationTables ==
    {[DataFrame(<<>>, <<>>, "datetime64") EXCEPT !.columns = c] :
        c \in SeqsUpTo(ColumnNames, MaxColumns)}

RequiredColumnsInputs == SeqsUpTo(ColumnNames \cup {"InvalidColumn"}, MaxColumns)

\* what is passed for df besides a DataFrame
NotDataFrames == {[kind |-> "None"], [kind |-> "dict"], [kind |-> "str"]}

\* isinstance(df, pd.DataFrame)
isinstance_DataFrame(df) == df.kind = "DataFrame"

\* col in df.columns
in_columns(col, columns) == \E i \in 1..Len(columns) : columns[i] = col

\* [col for col in required_columns if col not in df.columns]
RECURSIVE missing_columns(_, _)
missing_columns(required_columns, columns) ==
    IF required_columns = <<>> THEN <<>>
    ELSE (IF in_columns(Head(required_columns), columns) THEN <<>>
          ELSE <<Head(required_columns)>>)
         \o missing_columns(Tail(required_columns), columns)

\* a validator content with one of the required columns
validate_dataframe_any(h, out, df, required_columns) ==
    IF df.kind = "None" \/ ~isinstance_DataFrame(df)
    THEN [heap |-> h, stdout |-> out, outcome |-> Return(FALSE)]
    ELSE LET missing == missing_columns(required_columns, h[df.ref].columns)
         IN  IF Len(missing) > 0 /\ Len(missing) = Len(required_columns)
             THEN [heap |-> h, stdout |-> Append(out, [missing |-> missing]),
                   outcome |-> Return(FALSE)]
             ELSE [heap |-> h, stdout |-> out, outcome |-> Return(TRUE)]

\* a validator that selects the required columns: a missing one is a KeyError
validate_dataframe_by_selection(h, out, df, required_columns) ==
    IF df.kind = "None" \/ ~isinstance_DataFrame(df)
    THEN [heap |-> h, stdout |-> out, outcome |-> Return(FALSE)]
    ELSE IF missing_columns(required_columns, h[df.ref].columns) # <<>>
         THEN [heap |-> h, stdout |-> out, outcome |-> Raise("KeyError")]
         ELSE [heap |-> h, stdout |-> out, outcome |-> Return(TRUE)]

\* validate_dataframe(df, required_columns): the heap and the output it
\* leaves, and its outcome
validate_dataframe(h, out, df, required_columns) ==
    IF df.kind = "None"
    THEN [heap |-> h, stdout |-> out, outcome |-> Return(FALSE)]
    ELSE IF ~isinstance_DataFrame(df)
    THEN [heap |-> h, stdout |-> out, outcome |-> Return(FALSE)]
    ELSE LET missing == missing_columns(required_columns, h[df.ref].columns)
         IN  IF missing # <<>>
             THEN [heap |-> h, stdout |-> Append(out, [missing |-> missing]),
                   outcome |-> Return(FALSE)]
             ELSE [heap |-> h, stdout |-> out, outcome |-> Return(TRUE)]

\* a call with None or with something that is not a DataFrame
ValidateNotDataFrameCall ==
    /\ op = "none"
    /\ \E df \in NotDataFrames, required_columns \in RequiredColumnsInputs :
        LET r == validate_dataframe(heap, stdout, df, required_columns)
        IN  /\ op' = "validate_dataframe"
            /\ args' = [df |-> df, required_columns |-> required_columns]
            /\ result' = r.outcome
            /\ heap' = r.heap
            /\ stdout' = r.stdout
            /\ UNCHANGED threads

\* a call on a table the caller holds; args.table is the table as it was
\* when the call was made
ValidateDataFrameCall ==
    /\ op = "none"
    /\ \E table \in ValidationTables \cup {t \in EventTables : Len(t.index) = 1},
          required_columns \in RequiredColumnsInputs :
        LET made == Append(heap, table)
            df   == [kind |-> "DataFrame", ref |-> Len(made)]
            r    == validate_dataframe(made, stdout, df, required_columns)
        IN  /\ op' = "validate_dataframe"
            /\ args' = [df |-> df, required_columns |-> required_columns, table |-> table]
            /\ result' = r.outcome
            /\ heap' = r.heap
            /\ stdout' = r.stdout
            /\ UNCHANGED threads

(* ------------------------- format_business_impact ---------------------- *)

\* Prices are whole quarters of a dollar (0.25 is a float, so are its
\* multiples): 6 is $1.50.
QuartersPerDollar == 4

MeanVals == {-4, 0, 1, 4, 6}

ChangeDates ==
    {[year |-> 2021, month |-> 6, day |-> 2], [year |-> 2020, month |-> 12, day |-> 15]}

MonthNames ==
    <<"January", "February", "March", "April", "May", "June", "July",
      "August", "September", "October", "November", "December">>

\* change_date.strftime('%B %d, %Y'): month name, two-digit day, year
strftime_B_d_Y(date) ==
    [B |-> MonthNames[date.month], d |-> <<date.day \div 10, date.day % 10>>, Y |-> date.year]

\* num / den rounded to the nearest integer, ties to even
RoundHalfEven(num, den) ==
    LET n == IF den < 0 THEN -num ELSE num
        d == Abs(den)
        q == n \div d
        r == n % d
    IN  IF 2 * r > d THEN q + 1
        ELSE IF 2 * r = d THEN q + (q % 2)
        ELSE q

\* f"{x:.2f}" of a number of quarters: its hundredths
format_2f(quarters) == RoundHalfEven(quarters * 100, QuartersPerDollar)

\* f"{pct:.1f}" of the quotient num / den: its tenths
format_1f(pct) == RoundHalfEven(pct.num * 10, pct.den)

\* the comparisons of a quotient with 0
Positive(q) == (q.num > 0 /\ q.den > 0) \/ (q.num < 0 /\ q.den < 0)

Negative(q) == (q.num > 0 /\ q.den < 0) \/ (q.num < 0 /\ q.den > 0)

\* a comparison that counts no change as an increase
NonNegative(q) == ~Negative(q)

\* the text, given the test that selects the "increased" branch
business_impact_text(before_mean, after_mean, change_date, pct_change, increased) ==
    LET abs_change     == after_mean - before_mean
        trend          == IF increased THEN "increased"
                          ELSE IF Negative(pct_change) THEN "decreased"
                          ELSE "remained unchanged"
        revenue_impact == IF increased THEN "increase"
                          ELSE IF Negative(pct_change) THEN "decrease"
                          ELSE "no change"
    IN  [date |-> strftime_B_d_Y(change_date), trend |-> trend,
         before |-> format_2f(before_mean), after |-> format_2f(after_mean),
         abs_change |-> format_2f(abs_change), pct |-> format_1f(pct_change),
         revenue_impact |-> revenue_impact]

\* the formatter with ">=" in its first test
format_business_impact_ge(before_mean, after_mean, change_date) ==
    IF before_mean = 0 THEN Raise("ZeroDivisionError")
    ELSE LET pct_change == [num |-> (after_mean - before_mean) * 100, den |-> before_mean]
         IN  Return(business_impact_text(before_mean, after_mean, change_date,
                                         pct_change, NonNegative(pct_change)))

\* the formatter behind a guard that wants positive averages
format_business_impact_positive_only(before_mean, after_mean, change_date) ==
    IF before_mean <= 0 \/ after_mean <= 0 THEN Raise("ValueError")
    ELSE LET pct_change == [num |-> (after_mean - before_mean) * 100, den |-> before_mean]
         IN  Return(business_impact_text(before_mean, after_mean, change_date,
                                         pct_change, Positive(pct_change)))

\* format_business_impact(before_mean, after_mean, change_date); the division
\* of Python floats raises when the divisor is zero
format_business_impact(before_mean, after_mean, change_date) ==
    IF before_mean = 0 THEN Raise("ZeroDivisionError")
    ELSE LET pct_change == [num |-> (after_mean - before_mean) * 100, den |-> before_mean]
         IN  Return(business_impact_text(before_mean, after_mean, change_date,
                                         pct_change, Positive(pct_change)))

FormatBusinessImpactCall ==
    /\ op = "none"
    /\ \E before_mean \in MeanVals, after_mean \in MeanVals, change_date \in ChangeDates :
        /\ op' = "format_business_impact"
        /\ args' = [before_mean |-> before_mean, after_mean |-> after_mean,
                    change_date |-> change_date]
        /\ result' = format_business_impact(before_mean, after_mean, change_date)
        /\ UNCHANGED <<heap, stdout, threads>>

(* ------------------------------- app.py -------------------------------- *)

\* The dashboard script reads three files of the data folder. A file is
\* missing, or there and not readable (the reader raises), or readable; a
\* readable CSV file has its columns, a readable JSON file holds null or an
\* object with some of the change-point fields.

ChangeFields ==
    {"tau_samples", "mu1_samples", "mu2_samples", "sigma_samples", "prices",
     "change_point", "change_date"}

File(state, kind, names) == [state |-> state, kind |-> kind, names |-> names]

\* brent_prices_cleaned.csv: read_csv(parse_dates=['Date']) raises on a file
\* without a Date column, so a readable file has one; Price may be absent
PriceFiles ==
    {File("missing", "None", {}), File("unreadable", "None", {}),
     File("readable", "DataFrame", {"Date", "Price"}),
     File("readable", "DataFrame", {"Date"})}

\* key_events.csv
EventFiles ==
    {File("missing", "None", {}), File("unreadable", "None", {}),
     File("readable", "DataFrame", {"Event", "Date", "Type"})}

\* change_point_results.json
ChangeFiles ==
    {File("missing", "None", {}), File("unreadable", "None", {}),
     File("readable", "None", {})}
    \cup {File("readable", "dict", keys) : keys \in SUBSET ChangeFields}

\* a Python value: None, a DataFrame with its columns, a dict with its keys;
\* source tells a value read from a file from a sample made up by the loader
Value(kind, names, source) == [kind |-> kind, names |-> names, source |-> source]

None == Value("None", {}, "none")

\* pd.DataFrame({'Event': ..., 'Date': ..., 'Type': ...})
sample_events == Value("DataFrame", {"Event", "Date", "Type"}, "sample")

\* the sample change-point dict; prices_df['Price'] is read to fill 'prices'
sample_change_data(prices_df) ==
    IF prices_df.kind # "None" /\ "Price" \notin prices_df.names
    THEN Raise("KeyError")
    ELSE Return(Value("dict", ChangeFields, "sample"))

\* the three parts of load_data; each gives an outcome and the messages shown
load_prices(file) ==
    IF file.state = "readable"
    THEN [outcome |-> Return(Value(file.kind, file.names, "file")), messages |-> <<>>]
    ELSE [outcome |-> Return(None), messages |-> <<"error: price data">>]

load_events(file) ==
    IF file.state = "readable"
    THEN [outcome |-> Return(Value(file.kind, file.names, "file")), messages |-> <<>>]
    ELSE [outcome |-> Return(sample_events), messages |-> <<"warning: events">>]

load_change_data(file, prices_df) ==
    IF file.state = "readable"
    THEN [outcome |-> Return(Value(file.kind, file.names, "file")), messages |-> <<>>]
    ELSE [outcome |-> sample_change_data(prices_df), messages |-> <<"warning: change points">>]

\* load_data(): the triple it returns or the exception it lets through
load_data(fs) ==
    LET p == load_prices(fs.prices)
    IN  IF p.outcome.value.kind = "None"
        THEN [outcome |-> Return(<<None, None, None>>), messages |-> p.messages]
        ELSE LET e == load_events(fs.events)
                 c == load_change_data(fs.change, p.outcome.value)
             IN  IF c.outcome.kind = "raise"
                 THEN [outcome |-> c.outcome, messages |-> p.messages \o e.messages \o c.messages]
                 ELSE [outcome |-> Return(<<p.outcome.value, e.outcome.value, c.outcome.value>>),
                       messages |-> p.messages \o e.messages \o c.messages]

FileSystems ==
    {[prices |-> p, events |-> e, change |-> c] :
        p \in PriceFiles, e \in EventFiles, c \in ChangeFiles}

LoadDataCall ==
    /\ op = "none"
    /\ \E fs \in FileSystems :
        LET r == load_data(fs)
        IN  /\ op' = "load_data"
            /\ args' = [files |-> fs]
            /\ result' = r.outcome
            /\ stdout' = r.messages
            /\ UNCHANGED <<heap, threads>>

\* bool(change_data): None and the empty dict are false
Truthy(v) == v.kind # "None" /\ v.names # {}

\* the parts of the page, in the order the script computes them
Stages == <<"filter", "chart", "statistics", "tab1", "tab2", "tab3", "tab4">>

\* the exception a part of the page raises, or "none"
StageError(stage, prices_df, events_df, change_data) ==
    CASE stage = "filter" -> "none"
      [] stage = "chart" ->
           IF "Price" \notin prices_df.names THEN "KeyError" ELSE "none"
      [] stage = "statistics" ->
           IF "Price" \notin prices_df.names THEN "KeyError"
           ELSE IF /\ Truthy(change_data)
                   /\ "mu1_samples" \in change_data.names
                   /\ "mu2_samples" \notin change_data.names
                THEN "KeyError" ELSE "none"
      [] stage = "tab1" -> "none"
      [] stage = "tab2" ->
           IF /\ events_df.kind # "None"
              /\ Truthy(change_data)
              /\ "change_date" \notin change_data.names
           THEN "KeyError" ELSE "none"
      [] stage = "tab3" -> "none"
      [] stage = "tab4" -> "none"

\* the parts from the k-th on, given the parts done so far
RECURSIVE RunStages(_, _, _)
RunStages(k, done, loaded) ==
    IF k > Len(Stages) THEN [steps |-> done, outcome |-> Return("rendered")]
    ELSE LET err == StageError(Stages[k], loaded[1], loaded[2], loaded[3])
         IN  IF err # "none"
             THEN [steps |-> done, outcome |-> Raise(err)]
             ELSE RunStages(k + 1, Append(done, Stages[k]), loaded)

\* one run of the script: load, stop without prices, else the page
run_script(fs) ==
    LET r == load_data(fs)
    IN  IF r.outcome.kind = "raise"
        THEN [steps |-> <<>>, outcome |-> r.outcome, loaded |-> <<None, None, None>>]
        ELSE IF r.outcome.value[1].kind = "None"
        THEN [steps |-> <<"load_data", "stop">>, outcome |-> Return("stopped"),
              loaded |-> r.outcome.value]
        ELSE LET page == RunStages(1, <<"load_data">>, r.outcome.value)
             IN  [steps |-> page.steps, outcome |-> page.outcome, loaded |-> r.outcome.value]

ScriptRun ==
    /\ op = "none"
    /\ \E fs \in FileSystems :
        LET r == run_script(fs)
        IN  /\ op' = "app"
            /\ args' = [files |-> fs, loaded |-> r.loaded, steps |-> r.steps]
            /\ result' = r.outcome
            /\ UNCHANGED <<heap, stdout, threads>>

(* ----------------------------- concurrent calls ----------------------- *)

\* Threads run one function each. A thread holds the function's local names
\* (references into the heap) and its position pc; it takes one statement at
\* a time, and the interpreter may switch threads between any two statements.

SharedTables ==
    {t \in EventTables :
        /\ Len(t.index) <= MaxSharedRows
        /\ \/ \A i \in 1..Len(t.index) : t.index[i] = i - 1
           \/ \A i \in 1..Len(t.index) : t.index[i] = 0}

SharedTextTables ==
    {t \in EventTextTables :
        /\ Len(t.index) <= MaxSharedRows
        /\ \A i \in 1..Len(t.index) : t.index[i] = i - 1}

SharedReturns == {r \in ReturnsInputs : Len(r.vals) <= MaxSharedRows}

\* the reference every thread is given: the first object of the heap
SharedRef == 1

find_nearest_event_thread(target_date, date_column) ==
    [fn |-> "find_nearest_event", pc |-> "check", events_df |-> SharedRef,
     target_date |-> target_date, date_column |-> date_column,
     idx |-> -1, outcome |-> NoCall]

validate_dataframe_thread(required_columns) ==
    [fn |-> "validate_dataframe", pc |-> "check",
     df |-> [kind |-> "DataFrame", ref |-> SharedRef],
     required_columns |-> required_columns, outcome |-> NoCall]

date_to_index_thread(target_date) ==
    [fn |-> "date_to_index", pc |-> "call", date_series |-> SharedRef,
     target_date |-> target_date, outcome |-> NoCall]

calculate_rolling_volatility_thread(window) ==
    [fn |-> "calculate_rolling_volatility", pc |-> "array", returns |-> SharedRef,
     window |-> window, rolling_std |-> NoneRef, i |-> 0, outcome |-> NoCall]

calculate_log_returns_thread ==
    [fn |-> "calculate_log_returns", pc |-> "call", prices |-> SharedRef,
     outcome |-> NoCall]

\* the thread's statement ends the call with this outcome
Finish(t, outcome) ==
    threads' = [threads EXCEPT ![t].pc = "done", ![t].outcome = outcome]

\* if events_df is None or len(events_df) == 0: raise ValueError
FindNearestEventCheck(t) ==
    /\ threads[t].fn = "find_nearest_event"
    /\ threads[t].pc = "check"
    /\ IF threads[t].events_df = NoneRef \/ Len(heap[threads[t].events_df].index) = 0
       THEN Finish(t, Raise("ValueError"))
       ELSE threads' = [threads EXCEPT ![t].pc = "copy"]
    /\ UNCHANGED <<op, args, result, heap, stdout>>

\* events_df = events_df.copy()
FindNearestEventCopy(t) ==
    /\ threads[t].fn = "find_nearest_event"
    /\ threads[t].pc = "copy"
    /\ LET c == copy(heap, threads[t].events_df)
       IN  /\ heap' = c.heap
           /\ threads' = [threads EXCEPT ![t].pc = "to_datetime", ![t].events_df = c.ref]
    /\ UNCHANGED <<op, args, result, stdout>>

\* events_df[date_column] = pd.to_datetime(events_df[date_column])
FindNearestEventToDatetime(t) ==
    /\ threads[t].fn = "find_nearest_event"
    /\ threads[t].pc = "to_datetime"
    /\ LET conv == set_date_column(heap, threads[t].events_df, threads[t].date_column)
       IN  /\ heap' = conv.heap
           /\ IF conv.outcome.kind = "raise"
              THEN Finish(t, conv.outcome)
              ELSE threads' = [threads EXCEPT ![t].pc = "days_diff"]
    /\ UNCHANGED <<op, args, result, stdout>>

\* events_df['days_diff'] = abs((events_df[date_column] - target_date).dt.days)
FindNearestEventDaysDiff(t) ==
    /\ threads[t].fn = "find_nearest_event"
    /\ threads[t].pc = "days_diff"
    /\ heap' = set_days_diff(heap, threads[t].events_df, threads[t].target_date)
    /\ threads' = [threads EXCEPT ![t].pc = "idxmin"]
    /\ UNCHANGED <<op, args, result, stdout>>

\* idx = events_df['days_diff'].idxmin()
FindNearestEventIdxmin(t) ==
    /\ threads[t].fn = "find_nearest_event"
    /\ threads[t].pc = "idxmin"
    /\ threads' = [threads EXCEPT ![t].pc = "loc",
                                  ![t].idx = idxmin(heap[threads[t].events_df])]
    /\ UNCHANGED <<op, args, result, heap, stdout>>

\* return events_df.loc[idx]
FindNearestEventLoc(t) ==
    /\ threads[t].fn = "find_nearest_event"
    /\ threads[t].pc = "loc"
    /\ Finish(t, Return(loc(heap[threads[t].events_df], threads[t].idx)))
    /\ UNCHANGED <<op, args, result, heap, stdout>>

\* if df is None ... if not isinstance(df, pd.DataFrame): return False
ValidateCheck(t) ==
    /\ threads[t].fn = "validate_dataframe"
    /\ threads[t].pc = "check"
    /\ IF threads[t].df.kind = "None" \/ ~isinstance_DataFrame(threads[t].df)
       THEN Finish(t, Return(FALSE))
       ELSE threads' = [threads EXCEPT ![t].pc = "missing"]
    /\ UNCHANGED <<op, args, result, heap, stdout>>

\* missing = [...]; if missing: print(...); return False; return True
ValidateMissing(t) ==
    /\ threads[t].fn = "validate_dataframe"
    /\ threads[t].pc = "missing"
    /\ LET missing == missing_columns(threads[t].required_columns,
                                      heap[threads[t].df.ref].columns)
       IN  IF missing # <<>>
           THEN /\ stdout' = Append(stdout, [missing |-> missing])
                /\ Finish(t, Return(FALSE))
           ELSE /\ stdout' = stdout
                /\ Finish(t, Return(TRUE))
    /\ UNCHANGED <<op, args, result, heap>>

\* the date column of a table, as the Series a caller passes on
DateSeries(df) ==
    [dtype |-> df.date_dtype, tz |-> "None", vals |-> df.Date, index |-> df.index]

\* date_to_index reads its Series and writes nothing
DateToIndexRun(t) ==
    /\ threads[t].fn = "date_to_index"
    /\ threads[t].pc = "call"
    /\ Finish(t, date_to_index(DateSeries(heap[threads[t].date_series]),
                               threads[t].target_date))
    /\ UNCHANGED <<op, args, result, heap, stdout>>

\* returns = np.array(returns): a new array holding the same numbers
RollingVolatilityArray(t) ==
    /\ threads[t].fn = "calculate_rolling_volatility"
    /\ threads[t].pc = "array"
    /\ heap' = Append(heap, heap[threads[t].returns])
    /\ threads' = [threads EXCEPT ![t].pc = "zeros", ![t].returns = Len(heap) + 1]
    /\ UNCHANGED <<op, args, result, stdout>>

\* rolling_std = np.zeros_like(returns)
RollingVolatilityZeros(t) ==
    /\ threads[t].fn = "calculate_rolling_volatility"
    /\ threads[t].pc = "zeros"
    /\ LET returns == heap[threads[t].returns]
       IN  heap' = Append(heap, [dtype |-> returns.dtype,
                                 vals |-> [p \in 1..Len(returns.vals) |->
                                             IF returns.dtype = "int64" THEN 0 ELSE FZero]])
    /\ threads' = [threads EXCEPT ![t].pc = "loop", ![t].rolling_std = Len(heap) + 1]
    /\ UNCHANGED <<op, args, result, stdout>>

\* one turn of the loop: rolling_std[i] = np.std(...)
RollingVolatilityLoop(t) ==
    /\ threads[t].fn = "calculate_rolling_volatility"
    /\ threads[t].pc = "loop"
    /\ threads[t].i < Len(heap[threads[t].returns].vals)
    /\ LET returns == heap[threads[t].returns]
           value   == setitem(returns.dtype,
                              np_std(window_slice(returns.vals, threads[t].i, threads[t].window),
                                     Unit(returns.dtype)))
       IN  heap' = [heap EXCEPT ![threads[t].rolling_std].vals[threads[t].i + 1] = value]
    /\ threads' = [threads EXCEPT ![t].i = threads[t].i + 1]
    /\ UNCHANGED <<op, args, result, stdout>>

\* return rolling_std
RollingVolatilityReturn(t) ==
    /\ threads[t].fn = "calculate_rolling_volatility"
    /\ threads[t].pc = "loop"
    /\ threads[t].i = Len(heap[threads[t].returns].vals)
    /\ Finish(t, Return(heap[threads[t].rolling_std]))
    /\ UNCHANGED <<op, args, result, heap, stdout>>

\* calculate_log_returns reads its prices and writes nothing
LogReturnsRun(t) ==
    /\ threads[t].fn = "calculate_log_returns"
    /\ threads[t].pc = "call"
    /\ Finish(t, calculate_log_returns([kind |-> "ndarray",
                                        vals |-> heap[threads[t].prices].vals]))
    /\ UNCHANGED <<op, args, result, heap, stdout>>

\* two lookups, a validation and an index search share one event table
InitSharedTable ==
    /\ op = "concurrent"
    /\ result = NoCall
    /\ stdout = <<>>
    /\ \E table \in SharedTables, target_date \in TargetDateVals,
          required_columns \in {<<"Date">>, <<"Date", "InvalidColumn">>} :
        /\ args = [shared |-> "events_df", table |-> table]
        /\ heap = <<table>>
        /\ threads = <<find_nearest_event_thread(24, "Date"),
                       find_nearest_event_thread(target_date, "Date"),
                       validate_dataframe_thread(required_columns),
                       date_to_index_thread([kind |-> "datetime", wall |-> 12,
                                             tzinfo |-> "None"])>>

\* two lookups and a validation share a table whose dates are texts
InitSharedTextTable ==
    /\ op = "concurrent"
    /\ result = NoCall
    /\ stdout = <<>>
    /\ \E table \in SharedTextTables, target_date \in TargetDateVals,
          required_columns \in {<<"Date">>, <<"Date", "InvalidColumn">>} :
        /\ args = [shared |-> "events_df", table |-> table]
        /\ heap = <<table>>
        /\ threads = <<find_nearest_event_thread(24, "Date"),
                       find_nearest_event_thread(target_date, "Date"),
                       validate_dataframe_thread(required_columns)>>

\* two rolling volatilities and the log returns share one array
InitSharedReturns ==
    /\ op = "concurrent"
    /\ result = NoCall
    /\ stdout = <<>>
    /\ \E returns \in SharedReturns, window \in 1..2 :
        /\ args = [shared |-> "returns", returns |-> returns]
        /\ heap = <<returns>>
        /\ threads = <<calculate_rolling_volatility_thread(window),
                       calculate_rolling_volatility_thread(2),
                       calculate_log_returns_thread>>

InitConcurrent == InitSharedTable \/ InitSharedTextTable \/ InitSharedReturns

NextConcurrent ==
    \E t \in DOMAIN threads :
        \/ FindNearestEventCheck(t)
        \/ FindNearestEventCopy(t)
        \/ FindNearestEventToDatetime(t)
        \/ FindNearestEventDaysDiff(t)
        \/ FindNearestEventIdxmin(t)
        \/ FindNearestEventLoc(t)
        \/ ValidateCheck(t)
        \/ ValidateMissing(t)
        \/ DateToIndexRun(t)
        \/ RollingVolatilityArray(t)
        \/ RollingVolatilityZeros(t)
        \/ RollingVolatilityLoop(t)
        \/ RollingVolatilityReturn(t)
        \/ LogReturnsRun(t)

SpecConcurrent == InitConcurrent /\ [][NextConcurrent]_vars

(* ------------------- properties: calculate_log_returns ----------------- *)

IsLogReturnsCall == op = "calculate_log_returns"

\* an ordered sequence of numbers, whatever its container
IsPriceSequence(p) == p.kind \in {"list", "tuple", "ndarray", "Series"}

AllPositive(v) == \A i \in 1..Len(v) : v[i] > 0

\* C1: for every price sequence of n >= 2 positive prices the call returns
\* n - 1 elements, element i being ln(P[i+1]) - ln(P[i]).
C1_LogReturnsOfEveryPriceSequence ==
    (/\ IsLogReturnsCall
     /\ IsPriceSequence(args.prices)
     /\ Len(args.prices.vals) >= 2
     /\ AllPositive(args.prices.vals))
    => /\ result.kind = "return"
       /\ Len(result.value) = Len(args.prices.vals) - 1
       /\ \A i \in 1..(Len(args.prices.vals) - 1) :
            result.value[i] = LnMicro[args.prices.vals[i + 1]] - LnMicro[args.prices.vals[i]]

\* None, a scalar, a string, an empty or one-element sequence, or a sequence
\* with a non-positive element at any position
Malformed(p) ==
    \/ p.kind \in {"None", "float", "str"}
    \/ /\ IsPriceSequence(p)
       /\ \/ Len(p.vals) < 2
          \/ \E i \in 1..Len(p.vals) : p.vals[i] <= 0

\* C2: calculate_log_returns returns no value for malformed input; it raises.
C2_MalformedInputRaises ==
    (IsLogReturnsCall /\ Malformed(args.prices)) => result.kind = "raise"

\* a non-positive price behind a positive first price is rejected
C2_Witness ==
    /\ IsLogReturnsCall
    /\ args.prices.kind = "list"
    /\ Len(args.prices.vals) = 3
    /\ args.prices.vals[1] > 0
    /\ args.prices.vals[2] > 0
    /\ args.prices.vals[3] <= 0
    /\ result = Raise("ValueError")

\* C3: every array-like container of n >= 2 positive prices is accepted, the
\* result is the one a list of the same values gives, and a TypeError is
\* raised only for an input that is not array-like.
C3_ContainerIndependent ==
    IsLogReturnsCall =>
        /\ (/\ IsPriceSequence(args.prices)
            /\ Len(args.prices.vals) >= 2
            /\ AllPositive(args.prices.vals))
           => /\ result.kind = "return"
              /\ result = calculate_log_returns([kind |-> "list", vals |-> args.prices.vals])
        /\ result = Raise("TypeError") => ~IsPriceSequence(args.prices)

(* ----------------------- properties: date_to_index --------------------- *)

IsDateToIndexCall == op = "date_to_index"

\* every element of the Series is a date (a datetime64 value or a text that parses)
IsDateSequence(s) ==
    s.dtype = "object" => \A i \in 1..Len(s.vals) : s.vals[i] \in DOMAIN IsoHour

\* the hour element i stands for: wall clock when naive, UTC instant when aware
DateAt(s, i) == IF s.dtype = "object" THEN IsoHour[s.vals[i]] ELSE s.vals[i]

NonDecreasing(s) == \A i, j \in 1..Len(s.vals) : i < j => DateAt(s, i) <= DateAt(s, j)

StrictlyIncreasing(s) == \A i, j \in 1..Len(s.vals) : i < j => DateAt(s, i) < DateAt(s, j)

DefaultLabels(s) == \A i \in 1..Len(s.index) : s.index[i] = i - 1

\* the target is the datetime the Series holds at position k (1-based)
TargetIs(s, t, k) ==
    /\ t.kind = "datetime"
    /\ t.tzinfo = s.tz
    /\ t.wall - UtcOffset(t.tzinfo) = DateAt(s, k)

\* the first position (1-based) that holds the same date as position k
FirstOccurrence(s, k) ==
    CHOOSE j \in 1..k :
        /\ DateAt(s, j) = DateAt(s, k)
        /\ \A i \in 1..(j - 1) : DateAt(s, i) # DateAt(s, k)

EqualsNormalisedTarget(s, t, i) ==
    /\ IsDateSequence(s)
    /\ t.kind = "datetime"
    /\ IF s.tz # "None"
       THEN DateAt(s, i) = t.wall - UtcOffset(t.tzinfo)
       ELSE DateAt(s, i) = t.wall

MatchingPositions(s, t) == {i \in 1..Len(s.vals) : EqualsNormalisedTarget(s, t, i)}

Smallest(S) == CHOOSE i \in S : \A j \in S : i <= j

\* C5: when some element equals the normalised target, date_to_index returns
\* the smallest 0-based position whose element equals it.
C5_ReturnsSmallestPosition ==
    (IsDateToIndexCall /\ MatchingPositions(args.date_series, args.target_date) # {})
    => result = Return(Smallest(MatchingPositions(args.date_series, args.target_date)) - 1)

\* C6: date_to_index returns exactly -1 when the Series is empty or when no
\* element equals the target.
C6_MinusOneWhenAbsent ==
    (/\ IsDateToIndexCall
     /\ \/ Len(args.date_series.vals) = 0
        \/ MatchingPositions(args.date_series, args.target_date) = {})
    => result = Return(-1)

\* a non-empty Series of dates and a datetime target that none of them equals
C6_Witness ==
    /\ IsDateToIndexCall
    /\ Len(args.date_series.vals) = 3
    /\ IsDateSequence(args.date_series)
    /\ args.target_date.kind = "datetime"
    /\ MatchingPositions(args.date_series, args.target_date) = {}
    /\ result = Return(-1)

\* the statements of the try block fail: a text does not parse, or the
\* target has no tzinfo to read
InternalFailure(s, t) ==
    \/ ~IsDateSequence(s)
    \/ t.kind # "datetime" /\ Len(s.vals) > 0

\* C7: date_to_index never raises; an internal failure becomes the value -1.
C7_NeverRaises ==
    IsDateToIndexCall =>
        /\ result.kind = "return"
        /\ InternalFailure(args.date_series, args.target_date) => result.value = -1

\* a target of None against a non-empty Series of dates
C7_Witness ==
    /\ IsDateToIndexCall
    /\ args.target_date.kind = "None"
    /\ Len(args.date_series.vals) = 2
    /\ IsDateSequence(args.date_series)
    /\ result = Return(-1)

PositionOrMinusOne(S) == IF S = {} THEN Return(-1) ELSE Return(Smallest(S) - 1)

\* C8: against an aware Series a naive target is compared as UTC, against a
\* naive Series an aware target is compared by its wall-clock fields, and the
\* result is the position of the element equal to the target so normalised.
C8_TimezoneNormalised ==
    (/\ IsDateToIndexCall
     /\ IsDateSequence(args.date_series)
     /\ args.target_date.kind = "datetime")
    => /\ (args.date_series.tz # "None" /\ args.target_date.tzinfo = "None")
          => result = PositionOrMinusOne(
                        {i \in 1..Len(args.date_series.vals) :
                            args.date_series.vals[i] = args.target_date.wall})
       /\ (args.date_series.tz = "None" /\ args.target_date.tzinfo # "None")
          => result = PositionOrMinusOne(
                        {i \in 1..Len(args.date_series.vals) :
                            DateAt(args.date_series, i) = args.target_date.wall})

\* C22: for a Series whose index labels are not 0..n-1 (a row-filtered slice
\* of a longer table) date_to_index returns the 0-based position of the
\* first matching element, the number of elements that precede it, and not
\* that element's index label.
C22_PositionWhateverTheLabels ==
    (/\ IsDateToIndexCall
     /\ ~DefaultLabels(args.date_series)
     /\ MatchingPositions(args.date_series, args.target_date) # {})
    => LET first == Smallest(MatchingPositions(args.date_series, args.target_date))
       IN  /\ result = Return(Cardinality(1..(first - 1)))
           /\ args.date_series.index[first] # first - 1
                => result # Return(args.date_series.index[first])

IsCheckpointCall == op = "date_to_index_checkpoint"

\* the positions whose element is the target, both naive or both aware
PositionsOfTarget(s, t) ==
    {i \in 1..Len(s.vals) : s.vals[i] = t.wall - UtcOffset(t.tzinfo)}

\* C28: the date_to_index of utils-checkpoint.py keeps the contract of
\* utils.py: it returns -1 whenever the target is not an element of the
\* Series, a non-empty Series without a match included, and the index of the
\* match otherwise. It is stated of targets as timezone-aware as the Series.
C28_CheckpointKeepsContract ==
    (/\ IsCheckpointCall
     /\ (args.date_series.tz = "None") = (args.target_date.tzinfo = "None"))
    => /\ result = date_to_index(args.date_series, args.target_date)
       /\ PositionsOfTarget(args.date_series, args.target_date) = {}
            => result = Return(-1)
       /\ PositionsOfTarget(args.date_series, args.target_date) # {}
            => result = Return(args.date_series.index[
                                 Smallest(PositionsOfTarget(args.date_series,
                                                            args.target_date))])

(* --------------- properties: calculate_rolling_volatility -------------- *)

IsRollingVolatilityCall == op = "calculate_rolling_volatility"

\* an element of the output as a float
OutputValue(out, p) ==
    IF out.dtype = "int64" THEN FRound(out.vals[p], 1) ELSE out.vals[p]

Max(a, b) == IF a >= b THEN a ELSE b

\* returns[max(0, i - window + 1) .. i] inclusive, i 0-based
TrailingWindow(vals, i, window) == SubSeq(vals, Max(0, i - window + 1) + 1, i + 1)

\* C9: for integer-valued and fractional returns alike, element i of the
\* output is the population standard deviation of
\* returns[max(0, i - window + 1) .. i].
C9_PopulationStdOfTrailingWindow ==
    IsRollingVolatilityCall =>
        \A i \in 0..(Len(args.returns.vals) - 1) :
            /\ i + 1 <= Len(result.value.vals)
            /\ OutputValue(result.value, i + 1)
                 = np_std(TrailingWindow(args.returns.vals, i, args.window),
                          Unit(args.returns.dtype))

\* C10: the output has exactly len(returns) elements, for every positive
\* window, a window longer than the returns and the empty sequence included.
C10_OutputLengthIsInputLength ==
    IsRollingVolatilityCall =>
        /\ result.kind = "return"
        /\ Len(result.value.vals) = Len(args.returns.vals)

\* a window longer than the returns
C10_Witness ==
    /\ IsRollingVolatilityCall
    /\ Len(args.returns.vals) = 3
    /\ args.window > Len(args.returns.vals)
    /\ Len(result.value.vals) = 3

\* every element of the returns is the same number
ConstantReturns(r) == \A i, j \in 1..Len(r.vals) : r.vals[i] = r.vals[j]

\* C11 as stated: for constant returns of any length and any positive window
\* every element of the output is zero.
C11_ConstantReturnsGiveZero ==
    (IsRollingVolatilityCall /\ ConstantReturns(args.returns))
    => \A p \in 1..Len(result.value.vals) : OutputValue(result.value, p) = FZero

\* the float v >= 0 is at most n * 2^(1 - MantissaBits) * |k| / unit
WithinRounding(v, n, k, unit) ==
    IF v.e >= 0
    THEN v.m * Pow2(v.e) * unit * Pow2(MantissaBits - 1) <= n * Abs(k)
    ELSE v.m * unit * Pow2(MantissaBits - 1) <= n * Abs(k) * Pow2(-v.e)

\* C11 as amended: for constant returns r every element of the output is zero
\* up to the rounding of the window mean: the first element is exactly zero
\* and element i, over a window of n observations, is at most
\* n * 2^(1 - MantissaBits) * |r|.
C11_ConstantReturnsGiveZeroWithinRounding ==
    (IsRollingVolatilityCall /\ ConstantReturns(args.returns))
    => /\ Len(result.value.vals) = Len(args.returns.vals)
       /\ \A p \in 1..Len(result.value.vals) :
            /\ OutputValue(result.value, p).m >= 0
            /\ p = 1 => OutputValue(result.value, p) = FZero
            /\ WithinRounding(OutputValue(result.value, p),
                              Len(TrailingWindow(args.returns.vals, p - 1, args.window)),
                              args.returns.vals[p], Unit(args.returns.dtype))

\* three equal returns whose sum is not a float: the mean is rounded and the
\* third element is not zero
C11_Witness ==
    /\ IsRollingVolatilityCall
    /\ args.returns = [dtype |-> "float64", vals |-> <<3, 3, 3>>]
    /\ args.window = 3
    /\ result.value.vals[1] = FZero
    /\ result.value.vals[2] = FZero
    /\ result.value.vals[3] # FZero

IsFindNearestEventCall == op = "find_nearest_event"

\* the date of row i of the caller's table, as an hour
EventDate(table, i) ==
    IF table.date_dtype = "object" THEN EventIsoHour[table.Date[i]] ELSE table.Date[i]

\* a call on a non-empty table whose date column exists and holds dates
IsNearestEventLookup ==
    /\ IsFindNearestEventCall
    /\ args.events_df # NoneRef
    /\ Len(args.table.index) > 0
    /\ args.date_column = "Date"
    /\ args.table.date_dtype = "object"
        => \A i \in 1..Len(args.table.Date) : args.table.Date[i] \in DOMAIN EventIsoHour

UniqueLabels(table) ==
    \A i, j \in 1..Len(table.index) : table.index[i] = table.index[j] => i = j

\* |date - target| in whole days
WholeDayDifference(table, i, target) == Abs(EventDate(table, i) - target) \div HoursPerDay

\* the call returned exactly one record, and it is row i of the caller's table
ReturnsRow(i) ==
    /\ result.kind = "return"
    /\ result.value.kind = "Series"
    /\ Len(result.value.rows) = 1
    /\ result.value.rows[1].Event = args.table.Event[i]
    /\ result.value.rows[1].Date = EventDate(args.table, i)

\* C12 as stated, for tables whose index labels are all different: the call
\* returns a record of the table, and no event of the table is strictly
\* fewer whole days away from the target than the returned one.
C12_ReturnsNearestEvent ==
    (IsNearestEventLookup /\ UniqueLabels(args.table))
    => \E i \in 1..Len(args.table.index) :
          /\ ReturnsRow(i)
          /\ \A j \in 1..Len(args.table.index) :
                WholeDayDifference(args.table, i, args.target_date)
                    <= WholeDayDifference(args.table, j, args.target_date)

\* every event is a whole number of days away from the target
WholeDaysApart(table, target) ==
    \A i \in 1..Len(table.index) : (EventDate(table, i) - target) % HoursPerDay = 0

\* the first row among those nearest to the target
FirstNearest(table, target) ==
    CHOOSE i \in 1..Len(table.index) :
        /\ \A j \in 1..Len(table.index) :
              WholeDayDifference(table, i, target) <= WholeDayDifference(table, j, target)
        /\ \A j \in 1..(i - 1) :
              WholeDayDifference(table, j, target) # WholeDayDifference(table, i, target)

\* C13 as stated, for events a whole number of days from the target: the call
\* returns the first row, in the table's row order, among the nearest events,
\* whatever the order of the dates and whatever the index labels.
C13_TiesGoToFirstRow ==
    (IsNearestEventLookup /\ WholeDaysApart(args.table, args.target_date))
    => ReturnsRow(FirstNearest(args.table, args.target_date))

\* C14: the call raises ValueError, and returns nothing, whenever the events
\* table is None or has zero rows.
C14_EmptyTableRaises ==
    (IsFindNearestEventCall /\ (args.events_df = NoneRef \/ Len(args.table.index) = 0))
    => result = Raise("ValueError")

\* a table of the right columns and no rows was refused
C14_Witness ==
    /\ IsFindNearestEventCall
    /\ args.events_df # NoneRef
    /\ args.table.columns = <<"Event", "Date">>
    /\ Len(args.table.index) = 0
    /\ result = Raise("ValueError")

\* the table now is the table before: the same columns, the same rows in the
\* same order, dates of the same type and value
SameTable(now, before) ==
    /\ now.columns = before.columns
    /\ now.index = before.index
    /\ now.Event = before.Event
    /\ now.days_diff = before.days_diff
    /\ now.date_dtype = before.date_dtype
    /\ now.Date = before.Date

\* C15: after the call has returned or raised, the caller's table is what it
\* was when the call was made: the same columns (no days_diff), the same
\* rows in the same order, the same date values.
C15_CallerTableUnchanged ==
    (IsFindNearestEventCall /\ args.events_df # NoneRef)
    => SameTable(heap[args.events_df], args.table)

\* a table of text dates was searched: the conversion and the days_diff
\* column went into the copy, the caller's table kept its texts
C15_Witness ==
    /\ IsFindNearestEventCall
    /\ args.events_df # NoneRef
    /\ args.table.date_dtype = "object"
    /\ result.kind = "return"
    /\ Len(heap) = args.events_df + 1
    /\ HasColumn(heap[Len(heap)], "days_diff")
    /\ heap[Len(heap)].date_dtype = "datetime64"
    /\ SameTable(heap[args.events_df], args.table)
    /\ ~HasColumn(heap[args.events_df], "days_diff")

\* the table the call worked on: its private copy, made after the caller's
CopyOf(ref) == heap[ref + 1]

\* C23: the distance find_nearest_event computes is symmetric around the
\* target: an event dated target + d and an event dated target - d get the
\* same days_diff, for every duration d, a multiple of 24 hours or not.
C23_DistanceSymmetric ==
    (IsNearestEventLookup /\ result.kind = "return")
    => \A i, j \in 1..Len(args.table.index) :
          EventDate(args.table, i) - args.target_date
              = args.target_date - EventDate(args.table, j)
          => CopyOf(args.events_df).days_diff[i] = CopyOf(args.events_df).days_diff[j]

(* --------------------- properties: validate_dataframe ------------------ *)

IsValidateCall == op = "validate_dataframe"

EveryRequiredColumnPresent ==
    \A i \in 1..Len(args.required_columns) :
        \E j \in 1..Len(args.table.columns) :
            args.table.columns[j] = args.required_columns[i]

\* C16: the validator returns False for None and for a value that is not a
\* DataFrame; for a DataFrame it returns True exactly when every required
\* name is a column of the table, so True for an empty list of names and
\* False as soon as one name is missing.
C16_TrueIffEveryRequiredColumnPresent ==
    IsValidateCall
    => /\ args.df.kind # "DataFrame" => result = Return(FALSE)
       /\ args.df.kind = "DataFrame" =>
            /\ EveryRequiredColumnPresent => result = Return(TRUE)
            /\ ~EveryRequiredColumnPresent => result = Return(FALSE)
            /\ args.required_columns = <<>> => result = Return(TRUE)

\* one required name is there and the other is not: False
C16_Witness ==
    /\ IsValidateCall
    /\ args.df.kind = "DataFrame"
    /\ args.table.columns = <<"Date", "Price">>
    /\ args.required_columns = <<"Date", "InvalidColumn">>
    /\ result = Return(FALSE)

IsFormatCall == op = "format_business_impact"

\* the sign of pct = (after - before) / before * 100 for before # 0
PctSign ==
    LET d == args.after_mean - args.before_mean
    IN  IF d = 0 THEN 0
        ELSE IF (d > 0) = (args.before_mean > 0) THEN 1 ELSE -1

\* C18: the text names exactly one of three directions, chosen by the sign
\* of pct: 'increased' when pct > 0, 'decreased' when pct < 0, 'remained
\* unchanged' when pct is exactly 0, and the closing sentence carries the
\* matching wording (increase / decrease / no change).
C18_ThreeBuckets ==
    (IsFormatCall /\ result.kind = "return")
    => /\ PctSign = 1 =>
            result.value.trend = "increased" /\ result.value.revenue_impact = "increase"
       /\ PctSign = -1 =>
            result.value.trend = "decreased" /\ result.value.revenue_impact = "decrease"
       /\ PctSign = 0 =>
            /\ result.value.trend = "remained unchanged"
            /\ result.value.revenue_impact = "no change"

\* equal averages: pct is exactly 0
C18_Witness ==
    /\ IsFormatCall
    /\ args.before_mean = 6
    /\ args.after_mean = 6
    /\ result.kind = "return"
    /\ result.value.trend = "remained unchanged"
    /\ result.value.revenue_impact = "no change"
    /\ result.value.pct = 0

\* C19 as stated: the formatter returns a text, raising nothing, for every
\* pair of finite averages, zero and negative ones included, and every date.
C19_NeverRaises == IsFormatCall => result.kind = "return"

\* C19 as amended: the formatter returns a text, raising nothing, for every
\* pair of finite averages whose before_mean is not zero, negative ones
\* included, and every date; with before_mean = 0 it raises
\* ZeroDivisionError.
C19_RaisesOnlyOnZeroBefore ==
    IsFormatCall
    => /\ args.before_mean # 0 =>
            /\ result.kind = "return"
            /\ result.value.trend \in {"increased", "decreased", "remained unchanged"}
            /\ result.value.date = strftime_B_d_Y(args.change_date)
       /\ args.before_mean = 0 => result = Raise("ZeroDivisionError")

\* a negative before_mean and a zero after_mean give a text
C19_Witness ==
    /\ IsFormatCall
    /\ args.before_mean < 0
    /\ args.after_mean = 0
    /\ result.kind = "return"
    /\ result.value.trend = "decreased"

\* C24: the trend word agrees with the sign of the reported absolute change
\* after_mean - before_mean: for every before_mean other than zero, positive
\* or negative, the text says 'increased' exactly when after_mean >
\* before_mean, 'decreased' exactly when after_mean < before_mean, 'remained
\* unchanged' exactly when the two are equal.
C24_TrendAgreesWithAbsoluteChange ==
    (IsFormatCall /\ args.before_mean # 0)
    => /\ result.kind = "return"
       /\ result.value.trend = "increased" <=> args.after_mean > args.before_mean
       /\ result.value.trend = "decreased" <=> args.after_mean < args.before_mean
       /\ result.value.trend = "remained unchanged" <=> args.after_mean = args.before_mean

(* --------------------------- properties: app.py ------------------------ *)

IsLoadDataCall == op = "load_data"

IsScriptRun == op = "app"

\* the loader returned, and the k-th component of its triple is not None
Supplied(k) == result.kind = "return" /\ result.value[k].kind # "None"

\* C21: for each of the price series, the event list and the change-point
\* results, a missing file leads to a usable value, not None, returned for
\* that artifact, and not to a failed load. It is stated of the data folders
\* whose price file, when there is one, has its Price column.
C21_FallbackForEveryMissingFile ==
    (IsLoadDataCall /\ args.files.prices.names # {"Date"})
    => /\ args.files.prices.state = "missing" => Supplied(1)
       /\ args.files.events.state = "missing" => Supplied(2)
       /\ args.files.change.state = "missing" => Supplied(3)

\* C26: load_data returns (None, None, None) or a triple of three values that
\* are not None, the former exactly when the price file is missing or
\* unreadable; and on the former the script stops before it filters dates or
\* computes a statistic or a chart.
C26_AllOrNothing ==
    /\ IsLoadDataCall
       => /\ result.kind = "return"
          /\ \/ \A k \in 1..3 : result.value[k].kind = "None"
             \/ \A k \in 1..3 : result.value[k].kind # "None"
          /\ (\A k \in 1..3 : result.value[k].kind = "None")
             <=> args.files.prices.state # "readable"
    /\ (IsScriptRun /\ args.files.prices.state # "readable")
       => /\ result = Return("stopped")
          /\ args.steps = <<"load_data", "stop">>

\* C27: every read of a change-point field is guarded or has a default: with
\* prices and events loaded and a change_data object holding any subset of
\* the fields, the page renders through all four tabs and no key is missed.
C27_RendersForEverySubsetOfFields ==
    (/\ IsScriptRun
     /\ args.files.prices = File("readable", "DataFrame", {"Date", "Price"})
     /\ args.files.change.state = "readable"
     /\ args.files.change.kind = "dict")
    => /\ result = Return("rendered")
       /\ args.steps = <<"load_data">> \o Stages

(* ----------------------- properties: concurrent calls ------------------ *)

\* the outcome of thread t's call when it runs alone on the shared input
OutcomeAlone(t) ==
    LET th == threads[t]
    IN  CASE th.fn = "find_nearest_event" ->
               find_nearest_event(<<args.table>>, SharedRef, th.target_date,
                                  th.date_column).outcome
          [] th.fn = "validate_dataframe" ->
               validate_dataframe(<<args.table>>, <<>>, th.df, th.required_columns).outcome
          [] th.fn = "date_to_index" ->
               date_to_index(DateSeries(args.table), th.target_date)
          [] th.fn = "calculate_rolling_volatility" ->
               Return(calculate_rolling_volatility(args.returns, th.window))
          [] th.fn = "calculate_log_returns" ->
               calculate_log_returns([kind |-> "ndarray", vals |-> args.returns.vals])

\* the input the threads share is what it was before any of them ran
SharedInputUnchanged ==
    IF args.shared = "events_df"
    THEN SameTable(heap[SharedRef], args.table)
    ELSE heap[SharedRef] = args.returns

\* C20: under every interleaving of calls that share an input object, every
\* call that has finished has the outcome it has when run alone, and the
\* shared input is, at every moment, what it was before the calls.
C20_ConcurrentCallsAsAlone ==
    op = "concurrent"
    => /\ SharedInputUnchanged
       /\ \A t \in DOMAIN threads :
            threads[t].pc = "done" => threads[t].outcome = OutcomeAlone(t)

\* two lookups with different targets ran on one table, each on its own copy
\* with its own distances, next to a validation that printed its message
\* and an index search; all are finished, the lookups disagree as they do
\* when run alone, and the shared table is as it was
C20_Witness ==
    /\ op = "concurrent"
    /\ args.shared = "events_df"
    /\ args.table.date_dtype = "datetime64"
    /\ \A t \in DOMAIN threads : threads[t].pc = "done"
    /\ threads[1].outcome.kind = "return"
    /\ threads[2].outcome.kind = "return"
    /\ threads[1].outcome # threads[2].outcome
    /\ threads[3].outcome = Return(FALSE)
    /\ stdout = <<[missing |-> <<"InvalidColumn">>]>>
    /\ threads[4].outcome.kind = "return"
    /\ Len(heap) = 3
    /\ heap[2].days_diff # heap[3].days_diff
    /\ SharedInputUnchanged

(* --------------------------- specification ----------------------------- *)

Init ==
    /\ op = "none"
    /\ args = [none |-> TRUE]
    /\ result = NoCall
    /\ heap = <<>>
    /\ stdout = <<>>
    /\ threads = <<>>

Next ==
    \/ LogReturnsCall
    \/ DateToIndexCall
    \/ DateToIndexTextCall
    \/ DateToIndexCheckpointCall
    \/ RollingVolatilityCall
    \/ FindNearestEventNoneCall
    \/ FindNearestEventCall
    \/ FindNearestEventTextCall
    \/ ValidateNotDataFrameCall
    \/ ValidateDataFrameCall
    \/ FormatBusinessImpactCall
    \/ LoadDataCall
    \/ ScriptRun

Spec == Init /\ [][Next]_vars

====
